---- MODULE Spec2Model ----
(***************************************************************************)
(* Model of src/services/geminiService.ts: the two exported operations     *)
(* estimateNutritionFromImage (the spec's classifyFood) and getDailyTip,   *)
(* each one remote generateContent round trip followed by a synchronous    *)
(* continuation.                                                           *)
(*                                                                         *)
(* A text is a sequence of characters, each character a one-element        *)
(* string token ("sp", "nl" and "nbsp" stand for the space, the line feed  *)
(* and the no-break space).  A JavaScript value is a record [t, v]: t the  *)
(* typeof-like tag, v the payload.                                         *)
(***************************************************************************)
EXTENDS Integers, Sequences, FiniteSets, TLC

\* ------------------------------------------------------------ bounds
\* Concurrent calls in flight.
NumCalls == 2
\* Numbers in remote documents range over -MaxNum..MaxNum.
MaxNum == 1

\* ------------------------------------------------------- JS values
Undefined == [t |-> "undefined", v |-> 0]
Null == [t |-> "null", v |-> 0]
Bool(b) == [t |-> "boolean", v |-> b]
Num(n) == [t |-> "number", v |-> n]
Str(s) == [t |-> "string", v |-> s]
Obj(f) == [t |-> "object", v |-> f]
Arr(a) == [t |-> "array", v |-> a]
EmptyObj == Obj(<<>>)

\* JavaScript ToBoolean, as `if (x)` and `!x` apply it.
Truthy(x) ==
  CASE x.t = "undefined" -> FALSE
    [] x.t = "null" -> FALSE
    [] x.t = "boolean" -> x.v
    [] x.t = "number" -> x.v # 0
    [] x.t = "string" -> Len(x.v) > 0
    [] OTHER -> TRUE

\* Property read x.k on a non-nullish value: an own key of a parsed object,
\* undefined otherwise (no parsed primitive or array has these keys).
Get(x, k) ==
  IF x.t = "object" /\ k \in DOMAIN x.v THEN x.v[k] ELSE Undefined

\* Property keys of the response, as character sequences.
K_error == <<"e", "r", "r", "o", "r">>
K_name == <<"n", "a", "m", "e">>
K_portionSize == <<"p", "o", "r", "t", "i", "o", "n", "S", "i", "z", "e">>
K_nutrition == <<"n", "u", "t", "r", "i", "t", "i", "o", "n">>
K_calories == <<"c", "a", "l", "o", "r", "i", "e", "s">>
K_protein == <<"p", "r", "o", "t", "e", "i", "n">>
K_carbs == <<"c", "a", "r", "b", "s">>
K_fat == <<"f", "a", "t">>
NutritionKeys == {K_calories, K_protein, K_carbs, K_fat}

\* --------------------------------------------------- String.trim
\* White space and line terminators String.prototype.trim strips.
TrimWs == {"sp", "nl", "nbsp"}
\* White space the JSON grammar allows between tokens.
JsonWs == {"sp", "nl"}

RECURSIVE TrimStart(_)
TrimStart(s) ==
  IF s # <<>> /\ Head(s) \in TrimWs THEN TrimStart(Tail(s)) ELSE s

RECURSIVE TrimEnd(_)
TrimEnd(s) ==
  IF s # <<>> /\ s[Len(s)] \in TrimWs
    THEN TrimEnd(SubSeq(s, 1, Len(s) - 1))
    ELSE s

\* No trimming at all.
TrimNone(s) == s

Trim(s) == TrimEnd(TrimStart(s))

\* ---------------------------------------------------- JSON.parse
Digits == <<"0", "1", "2", "3", "4", "5", "6", "7", "8", "9">>
DigitSet == {Digits[i] : i \in 1..10}
DigitVal(c) == (CHOOSE i \in 1..10 : Digits[i] = c) - 1

\* A parse step: ok, the value read, and the index after it.
ParseFail == [ok |-> FALSE, val |-> Undefined, next |-> 0]
ParseOk(v, n) == [ok |-> TRUE, val |-> v, next |-> n]

At(s, i) == IF i >= 1 /\ i <= Len(s) THEN s[i] ELSE "eof"

RECURSIVE SkipWs(_, _)
SkipWs(s, i) == IF At(s, i) \in JsonWs THEN SkipWs(s, i + 1) ELSE i

\* Whether the characters of `lit` stand at index i of s.
Matches(s, i, lit) ==
  /\ i + Len(lit) - 1 <= Len(s)
  /\ \A j \in 1..Len(lit) : s[i + j - 1] = lit[j]

\* The body of a string literal from index i (after the opening quote):
\* a backslash escapes a quote or a backslash.
RECURSIVE ParseStringBody(_, _, _)
ParseStringBody(s, i, acc) ==
  LET c == At(s, i) IN
  CASE c = "eof" -> ParseFail
    [] c = "\"" -> ParseOk(Str(acc), i + 1)
    [] c = "\\" ->
         IF At(s, i + 1) \in {"\"", "\\"}
           THEN ParseStringBody(s, i + 2, Append(acc, At(s, i + 1)))
           ELSE ParseFail
    [] c \in {"nl"} -> ParseFail
    [] OTHER -> ParseStringBody(s, i + 1, Append(acc, c))

RECURSIVE ParseDigits(_, _, _)
ParseDigits(s, i, acc) ==
  IF At(s, i) \in DigitSet
    THEN ParseDigits(s, i + 1, 10 * acc + DigitVal(At(s, i)))
    ELSE ParseOk(Num(acc), i)

\* A number reader that drops the sign.
ParseNumberUnsigned(s, i) ==
  LET j == IF At(s, i) = "-" THEN i + 1 ELSE i IN
  IF At(s, j) = "0" THEN ParseOk(Num(0), j + 1)
  ELSE IF At(s, j) \in DigitSet THEN ParseDigits(s, j, 0)
  ELSE ParseFail

\* An integer literal: an optional minus, then 0 or a digit string with no
\* leading zero.
ParseNumber(s, i) ==
  LET neg == At(s, i) = "-"
      j == IF neg THEN i + 1 ELSE i
      r == IF At(s, j) = "0" THEN ParseOk(Num(0), j + 1)
           ELSE IF At(s, j) \in DigitSet THEN ParseDigits(s, j, 0)
           ELSE ParseFail
  IN IF r.ok /\ neg THEN ParseOk(Num(0 - r.val.v), r.next) ELSE r

L_true == <<"t", "r", "u", "e">>
L_false == <<"f", "a", "l", "s", "e">>
L_null == <<"n", "u", "l", "l">>

RECURSIVE ParseValue(_, _)
RECURSIVE ParseMembers(_, _, _)
RECURSIVE ParseElements(_, _, _)

\* The members of an object from index i (at a key), acc the members read;
\* a repeated key keeps its last value.
ParseMembers(s, i, acc) ==
  IF At(s, i) # "\"" THEN ParseFail
  ELSE
    LET k == ParseStringBody(s, i + 1, <<>>) IN
    IF ~k.ok THEN ParseFail
    ELSE
      LET c == SkipWs(s, k.next) IN
      IF At(s, c) # ":" THEN ParseFail
      ELSE
        LET v == ParseValue(s, SkipWs(s, c + 1)) IN
        IF ~v.ok THEN ParseFail
        ELSE
          LET acc2 == (k.val.v :> v.val) @@ acc
              e == SkipWs(s, v.next)
          IN CASE At(s, e) = "}" -> ParseOk(Obj(acc2), e + 1)
               [] At(s, e) = "," -> ParseMembers(s, SkipWs(s, e + 1), acc2)
               [] OTHER -> ParseFail

ParseElements(s, i, acc) ==
  LET v == ParseValue(s, i) IN
  IF ~v.ok THEN ParseFail
  ELSE
    LET acc2 == Append(acc, v.val)
        e == SkipWs(s, v.next)
    IN CASE At(s, e) = "]" -> ParseOk(Arr(acc2), e + 1)
         [] At(s, e) = "," -> ParseElements(s, SkipWs(s, e + 1), acc2)
         [] OTHER -> ParseFail

ParseValue(s, i) ==
  LET c == At(s, i) IN
  CASE c = "{" ->
         LET j == SkipWs(s, i + 1) IN
         IF At(s, j) = "}" THEN ParseOk(EmptyObj, j + 1)
         ELSE ParseMembers(s, j, <<>>)
    [] c = "[" ->
         LET j == SkipWs(s, i + 1) IN
         IF At(s, j) = "]" THEN ParseOk(Arr(<<>>), j + 1)
         ELSE ParseElements(s, j, <<>>)
    [] c = "\"" -> ParseStringBody(s, i + 1, <<>>)
    [] c = "-" \/ c \in DigitSet -> ParseNumber(s, i)
    [] c = "t" -> IF Matches(s, i, L_true) THEN ParseOk(Bool(TRUE), i + 4) ELSE ParseFail
    [] c = "f" -> IF Matches(s, i, L_false) THEN ParseOk(Bool(FALSE), i + 5) ELSE ParseFail
    [] c = "n" -> IF Matches(s, i, L_null) THEN ParseOk(Null, i + 4) ELSE ParseFail
    [] OTHER -> ParseFail

\* JSON.parse(s): one value, JSON white space around it, nothing else;
\* ok = FALSE stands for the SyntaxError it throws.
JSONParse(s) ==
  LET r == ParseValue(s, SkipWs(s, 1)) IN
  IF r.ok /\ SkipWs(s, r.next) = Len(s) + 1 THEN r ELSE ParseFail

\* ----------------------------------------- the remote's JSON text
\* The order in which a document's keys are written: that of the structure
\* the prompt asks for.
KeyOrder ==
  <<K_error, K_name, K_portionSize, K_nutrition,
    K_calories, K_protein, K_carbs, K_fat>>

Quote(s) == <<"\"">> \o s \o <<"\"">>

RECURSIVE Escape(_)
Escape(s) ==
  IF s = <<>> THEN <<>>
  ELSE IF Head(s) \in {"\"", "\\"}
    THEN <<"\\", Head(s)>> \o Escape(Tail(s))
    ELSE <<Head(s)>> \o Escape(Tail(s))

RECURSIVE Decimal(_)
Decimal(n) ==
  IF n < 10 THEN <<Digits[n + 1]>>
  ELSE Append(Decimal(n \div 10), Digits[(n % 10) + 1])

RECURSIVE Stringify(_)
RECURSIVE StringifyMembers(_, _, _)
RECURSIVE StringifyElements(_, _)

\* The members of object f whose keys are KeyOrder[i..], comma-separated.
StringifyMembers(f, i, first) ==
  IF i > Len(KeyOrder) THEN <<>>
  ELSE IF KeyOrder[i] \notin DOMAIN f THEN StringifyMembers(f, i + 1, first)
  ELSE (IF first THEN <<>> ELSE <<",">>)
       \o Quote(Escape(KeyOrder[i])) \o <<":">> \o Stringify(f[KeyOrder[i]])
       \o StringifyMembers(f, i + 1, FALSE)

StringifyElements(a, i) ==
  IF i > Len(a) THEN <<>>
  ELSE (IF i = 1 THEN <<>> ELSE <<",">>)
       \o Stringify(a[i]) \o StringifyElements(a, i + 1)

\* JSON.stringify of a value whose object keys are among KeyOrder.
Stringify(x) ==
  CASE x.t = "null" -> L_null
    [] x.t = "boolean" -> IF x.v THEN L_true ELSE L_false
    [] x.t = "number" ->
         IF x.v < 0 THEN <<"-">> \o Decimal(0 - x.v) ELSE Decimal(x.v)
    [] x.t = "string" -> Quote(Escape(x.v))
    [] x.t = "array" -> <<"[">> \o StringifyElements(x.v, 1) \o <<"]">>
    [] x.t = "object" -> <<"{">> \o StringifyMembers(x.v, 1, TRUE) \o <<"}">>

\* --------------------------------------------------- error values
\* An Error's message: a literal of the source, or String(a response value).
Literal(l) == [kind |-> "literal", lit |-> l, val |-> Undefined]
StringOf(x) == [kind |-> "value", lit |-> "", val |-> x]
Error(name, msg) == [name |-> name, message |-> msg]
NoError == Error("none", Literal(""))

FailedToAnalyze ==
  "Failed to analyze image. The food might not be recognized or there was a network issue."
CouldNotIdentify == "Could not identify the food. Please try another photo."
\* "Stay hydrated by drinking plenty of water throughout the day!"
FallbackTip ==
  <<
    "S", "t", "a", "y", "sp", "h", "y", "d", "r", "a", "t", "e", "d",
    "sp", "b", "y", "sp", "d", "r", "i", "n", "k", "i", "n", "g", "sp",
    "p", "l", "e", "n", "t", "y", "sp", "o", "f", "sp", "w", "a", "t",
    "e", "r", "sp", "t", "h", "r", "o", "u", "g", "h", "o", "u", "t",
    "sp", "t", "h", "e", "sp", "d", "a", "y", "!"
  >>

\* What the runtime throws by itself.
TypeError == Error("TypeError", Literal("Cannot read properties"))
SyntaxError == Error("SyntaxError", Literal("Unexpected token"))
\* Reasons generateContent rejects with: no network, a non-2xx answer.
TransportErrors ==
  {Error("TypeError", Literal("Failed to fetch")),
   Error("ApiError", Literal("503 Service Unavailable"))}

\* ------------------------------------------- completions of a try
Return(v) == [status |-> "returned", value |-> v, error |-> NoError]
Throw(e) == [status |-> "thrown", value |-> Undefined, error |-> e]

\* The settled promise of generateContent: fulfilled with a response whose
\* `text` is a string or undefined, or rejected with a reason.  `document`
\* records the JSON document the remote serialized into the text (Undefined
\* when the text is no serialization); the client never reads it.
Pending ==
  [state |-> "pending", text |-> Undefined, reason |-> NoError,
   document |-> Undefined]
Fulfilled(text, doc) ==
  [state |-> "fulfilled", text |-> text, reason |-> NoError, document |-> doc]
Rejected(e) ==
  [state |-> "rejected", text |-> Undefined, reason |-> e,
   document |-> Undefined]

\* --------------------------------- estimateNutritionFromImage
\* A check of the error field that never fires.
ErrorFieldCheckSkipped(result) == FALSE

\* `if (result.error)`.
ErrorFieldCheck(result) == Truthy(Get(result, K_error))

\* A check of the fields that forgets nutrition.
MissingFieldsNameOnly(result) == ~Truthy(Get(result, K_name))

\* `if (!result.name || !result.nutrition)`.
MissingFields(result) ==
  ~Truthy(Get(result, K_name)) \/ ~Truthy(Get(result, K_nutrition))

\* The statements of the try block after the await: trim, parse, the two
\* checks, the return.
ClassifyTry(response) ==
  IF response.state = "rejected" THEN Throw(response.reason)
  ELSE IF response.text.t # "string" THEN Throw(TypeError)
  ELSE
    LET jsonString == Trim(response.text.v)
        parsed == JSONParse(jsonString)
        result == parsed.val
    IN IF ~parsed.ok THEN Throw(SyntaxError)
       ELSE IF result.t = "null" THEN Throw(TypeError)
       ELSE IF ErrorFieldCheck(result)
         THEN Throw(Error("Error", StringOf(Get(result, K_error))))
       ELSE IF MissingFields(result)
         THEN Throw(Error("Error", Literal(CouldNotIdentify)))
       ELSE Return(result)

\* A catch block that rethrows what it caught.
ClassifyCatchRethrow(e) ==
  [logged |-> <<[label |-> "Gemini API error:", error |-> e]>>,
   completion |-> Throw(e)]

\* A catch block that logs the error it is about to throw.
ClassifyCatchLogsWrapped(e) ==
  [logged |-> <<[label |-> "Gemini API error:",
                 error |-> Error("Error", Literal(FailedToAnalyze))]>>,
   completion |-> Throw(Error("Error", Literal(FailedToAnalyze)))]

\* The catch block: what it logs and what it throws.
ClassifyCatch(e) ==
  [logged |-> <<[label |-> "Gemini API error:", error |-> e]>>,
   completion |-> Throw(Error("Error", Literal(FailedToAnalyze)))]

\* The continuation of estimateNutritionFromImage once the await settles.
ClassifyContinuation(response) ==
  LET t == ClassifyTry(response) IN
  IF t.status = "thrown" THEN ClassifyCatch(t.error)
  ELSE [logged |-> <<>>, completion |-> t]

\* ------------------------------------------------- getDailyTip
\* A getDailyTip without its catch block.
TipContinuationNoCatch(response) ==
  IF response.state = "rejected"
    THEN [logged |-> <<>>, completion |-> Throw(response.reason)]
    ELSE [logged |-> <<>>, completion |-> Return(response.text)]

\* The continuation of getDailyTip once the await settles.
TipContinuation(response) ==
  IF response.state = "rejected"
    THEN [logged |-> <<[label |-> "Gemini tip generation error:",
                        error |-> response.reason]>>,
          completion |-> Return(Str(FallbackTip))]
    ELSE [logged |-> <<>>, completion |-> Return(response.text)]

\* ------------------------------------------ what the remote sends
Nums == ((0 - MaxNum)..MaxNum) \cup {250}

\* Values a field of the document may hold; Undefined: the key is absent.
ErrorVals == {Undefined, Null, Str(<<>>), Str(<<"N", "o", "sp", "f", "o", "o", "d">>),
              Num(0), Bool(TRUE)}
NameVals == {Undefined, Null, Str(<<>>), Str(<<"A", "s", "a", "d", "o">>),
             Str(<<"\"", "\\", "nbsp">>), Arr(<<>>)}
PortionVals == {Undefined, Str(<<"1", "sp", "u", "n", "i", "t">>)}
FullNutrition ==
  {Obj(K_calories :> Num(a) @@ K_protein :> Num(b) @@ K_carbs :> Num(c)
       @@ K_fat :> Num(d)) : a \in Nums, b \in Nums, c \in Nums, d \in Nums}
SampleNutrition ==
  Obj(K_calories :> Num(250) @@ K_protein :> Num(1) @@ K_carbs :> Num(0)
      @@ K_fat :> Num(1))
NutritionVals ==
  {Undefined, Null, EmptyObj, Num(1), Str(<<>>), SampleNutrition,
   Obj(K_calories :> Num(250) @@ K_protein :> Null),
   Obj(K_calories :> Str(<<"2">>) @@ K_protein :> Num(1) @@ K_carbs :> Num(0)
       @@ K_fat :> Num(1))}

\* The object with the given fields, absent ones left out.
Doc(e, n, p, nu) ==
  LET all == K_error :> e @@ K_name :> n @@ K_portionSize :> p
             @@ K_nutrition :> nu
      present == {k \in DOMAIN all : all[k] # Undefined}
  IN Obj([k \in present |-> all[k]])

\* A FoodResult as the spec's data model has it: a non-empty name, a
\* portion size, four numeric nutrition fields, error absent, null or empty.
WellFormedFoodResults ==
  {Doc(e, n, p, nu) :
     e \in {Undefined, Null, Str(<<>>)},
     n \in {x \in NameVals : x.t = "string" /\ Truthy(x)},
     p \in {x \in PortionVals : x.t = "string"},
     nu \in FullNutrition}

ObjectDocs ==
  {Doc(e, n, p, nu) :
     e \in ErrorVals, n \in NameVals, p \in PortionVals, nu \in NutritionVals}
  \cup WellFormedFoodResults

OtherDocs == {Null, Num(250), Bool(TRUE), Str(K_name), Arr(<<>>),
              Arr(<<SampleNutrition, Null>>)}

\* Text around a document: none, JSON white space, white space only trim strips.
Pads == {<<<<>>, <<>>>>, <<<<"sp", "nl">>, <<"nl">>>>, <<<<"nbsp">>, <<"sp", "nbsp">>>>}

\* Texts that are no JSON document.
MalformedTexts ==
  {<<>>, <<"sp">>, <<"{">>, <<"{", "}", "x">>, <<"n", "u", "l">>, <<"0", "1">>,
   <<"{", "\"", "n", "a", "m", "e", "\"", "}">>,
   <<"S", "o", "r", "r", "y">>,
   <<"{", "nbsp", "}">>}

\* The response whose text is document d between the pads pd.
Serialized(d, pd) == Fulfilled(Str(pd[1] \o Stringify(d) \o pd[2]), d)
Unparseable(t) == Fulfilled(Str(t), Undefined)
NoText == Fulfilled(Undefined, Undefined)

\* Every response the model lets the remote answer with.
AllResponses ==
  {Serialized(d, pd) : d \in ObjectDocs \cup OtherDocs, pd \in Pads}
  \cup {Unparseable(t) : t \in MalformedTexts}
  \cup {NoText}

\* A representative few, for the calls that run concurrently.
GoodDoc ==
  Doc(Null, Str(<<"A", "s", "a", "d", "o">>), Str(<<"1", "sp", "u", "n", "i", "t">>),
      SampleNutrition)
NoFoodDoc ==
  Doc(Str(<<"N", "o", "sp", "f", "o", "o", "d">>), Undefined, Undefined, Undefined)
FewResponses ==
  {Serialized(GoodDoc, <<<<>>, <<>>>>),
   Serialized(GoodDoc, <<<<"nbsp">>, <<"nl">>>>),
   Serialized(NoFoodDoc, <<<<>>, <<>>>>),
   Serialized(Doc(Undefined, Str(<<>>), Undefined, SampleNutrition), <<<<>>, <<>>>>),
   Serialized(Null, <<<<>>, <<>>>>),
   Unparseable(<<"S", "o", "r", "r", "y">>),
   NoText}

\* ------------------------------------------------------- the state
VARIABLES
  client,    \* the shared GoogleGenAI handle and model name
  pc,        \* per call: "idle", "awaiting", "settled", "done"
  op,        \* per call: "none", "classify", "tip"
  sent,      \* per call: the generateContent requests it issued
  remote,    \* per call: the promise generateContent returned
  outcome,   \* per call: how the call completed for its caller
  console    \* per call: what it wrote with console.error

vars == <<client, pc, op, sent, remote, outcome, console>>

Calls == 1..NumCalls
Images == {"imgA", "imgB"}

ClientConfig == [apiKey |-> "VITE_API_KEY", model |-> "gemini-2.5-flash"]
NoOutcome == [status |-> "none", value |-> Undefined, error |-> NoError]

Init ==
  /\ client = ClientConfig
  /\ pc = [c \in Calls |-> "idle"]
  /\ op = [c \in Calls |-> "none"]
  /\ sent = [c \in Calls |-> <<>>]
  /\ remote = [c \in Calls |-> Pending]
  /\ outcome = [c \in Calls |-> NoOutcome]
  /\ console = [c \in Calls |-> <<>>]

\* The request estimateNutritionFromImage builds.
ImageRequest(base64Image) ==
  [model |-> client.model, mimeType |-> "image/jpeg", data |-> base64Image,
   responseMimeType |-> "application/json"]

\* The request getDailyTip builds.
TipRequest ==
  [model |-> client.model, mimeType |-> "none", data |-> "prompt",
   responseMimeType |-> "none"]

\* An exported function up to its await: it issues its one request.
Invoke(c, kind, request) ==
  /\ pc[c] = "idle"
  /\ op' = [op EXCEPT ![c] = kind]
  /\ sent' = [sent EXCEPT ![c] = Append(@, request)]
  /\ pc' = [pc EXCEPT ![c] = "awaiting"]
  /\ UNCHANGED <<client, remote, outcome, console>>

EstimateNutritionFromImage(c, base64Image) ==
  Invoke(c, "classify", ImageRequest(base64Image))

GetDailyTip(c) == Invoke(c, "tip", TipRequest)

\* The remote answers call c's request.
RemoteFulfils(c, responses) ==
  /\ pc[c] = "awaiting"
  /\ \E r \in responses : remote' = [remote EXCEPT ![c] = r]
  /\ pc' = [pc EXCEPT ![c] = "settled"]
  /\ UNCHANGED <<client, op, sent, outcome, console>>

\* Call c's request fails in transport.
RemoteRejects(c) ==
  /\ pc[c] = "awaiting"
  /\ \E e \in TransportErrors : remote' = [remote EXCEPT ![c] = Rejected(e)]
  /\ pc' = [pc EXCEPT ![c] = "settled"]
  /\ UNCHANGED <<client, op, sent, outcome, console>>

\* A continuation that, having failed, issues the request again.
FinishWithRetry(c, k) ==
  IF k.logged # <<>>
    THEN /\ sent' = [sent EXCEPT ![c] = Append(@, @[1])]
         /\ console' = [console EXCEPT ![c] = @ \o k.logged]
         /\ pc' = [pc EXCEPT ![c] = "awaiting"]
         /\ UNCHANGED <<client, op, remote, outcome>>
    ELSE /\ outcome' = [outcome EXCEPT ![c] = k.completion]
         /\ pc' = [pc EXCEPT ![c] = "done"]
         /\ UNCHANGED <<client, op, sent, remote, console>>

\* A continuation that, having failed, marks the shared client unusable.
FinishPoisoning(c, k) ==
  /\ outcome' = [outcome EXCEPT ![c] = k.completion]
  /\ console' = [console EXCEPT ![c] = @ \o k.logged]
  /\ pc' = [pc EXCEPT ![c] = "done"]
  /\ client' = IF k.logged # <<>> THEN [client EXCEPT !.model = "none"] ELSE client
  /\ UNCHANGED <<op, sent, remote>>

\* The rest of the async function body runs once its await has settled: it
\* completes the call with k.completion, having logged k.logged.
Finish(c, k) ==
  /\ outcome' = [outcome EXCEPT ![c] = k.completion]
  /\ console' = [console EXCEPT ![c] = @ \o k.logged]
  /\ pc' = [pc EXCEPT ![c] = "done"]
  /\ UNCHANGED <<client, op, sent, remote>>

ResumeClassify(c) ==
  /\ pc[c] = "settled"
  /\ op[c] = "classify"
  /\ Finish(c, ClassifyContinuation(remote[c]))

ResumeTip(c) ==
  /\ pc[c] = "settled"
  /\ op[c] = "tip"
  /\ Finish(c, TipContinuation(remote[c]))

Step(c, responses) ==
  \/ \E img \in Images : EstimateNutritionFromImage(c, img)
  \/ GetDailyTip(c)
  \/ RemoteFulfils(c, responses)
  \/ RemoteRejects(c)
  \/ ResumeClassify(c)
  \/ ResumeTip(c)

\* Concurrent calls, the remote answering with one of a few responses.
Next == \E c \in Calls : Step(c, FewResponses)
Spec == Init /\ [][Next]_vars

\* One call, the remote answering with any response.
NextAny == Step(1, AllResponses)
SpecAny == Init /\ [][NextAny]_vars

\* ------------------------------------------------------ properties
ClassifyDone(c) == pc[c] = "done" /\ op[c] = "classify"
TipDone(c) == pc[c] = "done" /\ op[c] = "tip"
Returned(c) == outcome[c].status = "returned"
Thrown(c) == outcome[c].status = "thrown"
CallerMessage(c) == outcome[c].error.message

\* The remote answered call c with a parsed JSON document.
Answered(c) == remote[c].state = "fulfilled" /\ remote[c].document # Undefined

\* All four nutrition fields of nutrition value n are numbers >= 0.
FourNonNegative(n) ==
  \A k \in NutritionKeys : Get(n, k).t = "number" /\ Get(n, k).v >= 0

\* C1: a finished classifyFood call has either failed or returned a result
\* whose name is non-empty, whose nutrition is present and whose error field
\* is not set.
C1_SuccessHasNameAndNutrition ==
  \A c \in Calls : ClassifyDone(c) =>
    \/ Thrown(c)
    \/ /\ Returned(c)
       /\ Truthy(Get(outcome[c].value, K_name))
       /\ Truthy(Get(outcome[c].value, K_nutrition))
       /\ ~Truthy(Get(outcome[c].value, K_error))

C1_Witness ==
  \E c \in Calls : ClassifyDone(c) /\ Returned(c)
    /\ K_error \in DOMAIN outcome[c].value.v

\* C2: when the response JSON carries a non-empty error field, classifyFood
\* fails, and the caller's message is that error message or the generic
\* wrapping message, whatever name and nutrition the JSON also carries.
C2_ErrorFieldFails ==
  \A c \in Calls :
    (ClassifyDone(c) /\ Answered(c) /\ Truthy(Get(remote[c].document, K_error))) =>
      /\ Thrown(c)
      /\ CallerMessage(c) \in
           {StringOf(Get(remote[c].document, K_error)), Literal(FailedToAnalyze)}

C2_Witness ==
  \E c \in Calls :
    /\ ClassifyDone(c) /\ Answered(c) /\ Thrown(c)
    /\ Truthy(Get(remote[c].document, K_error))
    /\ Truthy(Get(remote[c].document, K_name))
    /\ Truthy(Get(remote[c].document, K_nutrition))

\* C3: when the parsed response has no error set and lacks name or
\* nutrition, classifyFood fails and the caller receives the "could not
\* identify" message.
C3_MissingFieldsMessage ==
  \A c \in Calls :
    (/\ ClassifyDone(c) /\ Answered(c)
     /\ ~Truthy(Get(remote[c].document, K_error))
     /\ \/ ~Truthy(Get(remote[c].document, K_name))
        \/ ~Truthy(Get(remote[c].document, K_nutrition))) =>
      /\ Thrown(c)
      /\ CallerMessage(c) = Literal(CouldNotIdentify)

\* C4: when generateContent rejects, classifyFood fails with the generic
\* "failed to analyze" message, and never returns a result.
C4_TransportFailureFails ==
  \A c \in Calls :
    (ClassifyDone(c) /\ remote[c].state = "rejected") =>
      /\ Thrown(c)
      /\ CallerMessage(c) = Literal(FailedToAnalyze)

C4_Witness ==
  \E c \in Calls : ClassifyDone(c) /\ remote[c].state = "rejected"

\* C5: getDailyTip never throws; it returns the fallback literal when the
\* remote call fails and the response's raw text when it succeeds.
C5_TipNeverFails ==
  \A c \in Calls : TipDone(c) =>
    /\ Returned(c)
    /\ remote[c].state = "rejected" => outcome[c].value = Str(FallbackTip)
    /\ remote[c].state = "fulfilled" => outcome[c].value = remote[c].text

C5_Witness ==
  \E c \in Calls : TipDone(c) /\ remote[c].state = "rejected"
    /\ outcome[c].value = Str(FallbackTip)

\* C6: a call issues its one request when invoked and none after it, also
\* once the remote has failed or answered with something unusable.
C6_OneRequestPerCall ==
  \A c \in Calls : Len(sent[c]) = IF pc[c] = "idle" THEN 0 ELSE 1

C6_Witness ==
  \E c, d \in Calls :
    /\ ClassifyDone(c) /\ Thrown(c) /\ Len(sent[c]) = 1
    /\ TipDone(d) /\ remote[d].state = "rejected" /\ Len(sent[d]) = 1

\* C7 as claimed: every result classifyFood returns has a non-empty name and
\* four nutrition fields that are present and non-negative.
C7_ReturnedNutritionNonNegative ==
  \A c \in Calls : (ClassifyDone(c) /\ Returned(c)) =>
    /\ Truthy(Get(outcome[c].value, K_name))
    /\ FourNonNegative(Get(outcome[c].value, K_nutrition))

\* C7 as amended: every result classifyFood returns has a non-empty name and
\* a present nutrition value, and its four nutrition fields are present and
\* non-negative exactly when they are so in the JSON the remote returned.
C7_ReturnedNutritionAsReceived ==
  \A c \in Calls : (ClassifyDone(c) /\ Returned(c)) =>
    /\ Truthy(Get(outcome[c].value, K_name))
    /\ Get(outcome[c].value, K_nutrition) # Undefined
    /\ Get(outcome[c].value, K_nutrition) # Null
    /\ FourNonNegative(Get(outcome[c].value, K_nutrition))
         <=> FourNonNegative(Get(remote[c].document, K_nutrition))

C7_Witness ==
  \E c \in Calls : ClassifyDone(c) /\ Returned(c)
    /\ ~FourNonNegative(Get(outcome[c].value, K_nutrition))
    /\ \A k \in NutritionKeys : Get(Get(outcome[c].value, K_nutrition), k).t = "number"

\* C8: a failed classifyFood call has logged the underlying error, not the
\* one it throws, exactly once and in the step that fails it; a call that
\* has not failed has logged nothing.
C8_FailureLoggedOnce ==
  \A c \in Calls : op[c] = "classify" =>
    IF pc[c] = "done" /\ Thrown(c)
      THEN /\ Len(console[c]) = 1
           /\ console[c][1].label = "Gemini API error:"
           /\ console[c][1].error # outcome[c].error
           /\ remote[c].state = "rejected" => console[c][1].error = remote[c].reason
           /\ (Answered(c) /\ Truthy(Get(remote[c].document, K_error))) =>
                console[c][1].error =
                  Error("Error", StringOf(Get(remote[c].document, K_error)))
           /\ (remote[c].state = "fulfilled" /\ remote[c].text # Undefined
                 /\ remote[c].document = Undefined) =>
                console[c][1].error = SyntaxError
      ELSE console[c] = <<>>

C8_Witness ==
  \E c \in Calls : ClassifyDone(c) /\ Thrown(c) /\ Answered(c)
    /\ Len(console[c]) = 1

\* C9: no step changes the shared client configuration, a step changes the
\* state of one call only, and two finished calls of the same operation
\* whose remote answered alike completed alike.
C9_Frame ==
  /\ client' = client
  /\ \A c, d \in Calls :
       (c # d /\ pc'[c] # pc[c]) =>
         /\ pc'[d] = pc[d] /\ outcome'[d] = outcome[d] /\ console'[d] = console[d]
         /\ remote'[d] = remote[d] /\ sent'[d] = sent[d] /\ op'[d] = op[d]

C9_Deterministic ==
  \A c, d \in Calls :
    (/\ pc[c] = "done" /\ pc[d] = "done" /\ op[c] = op[d]
     /\ remote[c].state = remote[d].state
     /\ remote[c].text = remote[d].text
     /\ remote[c].reason = remote[d].reason) =>
      outcome[c] = outcome[d] /\ console[c] = console[d]

C9_CallsIndependent ==
  [](client = ClientConfig /\ C9_Deterministic) /\ [][C9_Frame]_vars

C9_Witness ==
  \E c, d \in Calls :
    /\ c # d /\ ClassifyDone(c) /\ ClassifyDone(d)
    /\ Thrown(c) /\ Returned(d)
    /\ sent[c][1].data # sent[d][1].data

\* C10: when the response text is the JSON serialization of a well-formed
\* FoodResult, with white space around it or not, classifyFood returns a
\* value equal to that FoodResult.
C10_RoundTrip ==
  \A c \in Calls :
    (ClassifyDone(c) /\ remote[c].document \in WellFormedFoodResults) =>
      outcome[c] = Return(remote[c].document)

C10_Witness ==
  \E c \in Calls :
    /\ ClassifyDone(c) /\ remote[c].document \in WellFormedFoodResults
    /\ Head(remote[c].text.v) = "nbsp"
    /\ K_error \in DOMAIN remote[c].document.v
    /\ Get(remote[c].document, K_name) = Str(<<"\"", "\\", "nbsp">>)
    /\ Get(Get(remote[c].document, K_nutrition), K_calories) = Num(250)

====
